---- MODULE Spec2Model ----
(***************************************************************************)
(* Dolar pipeline: the fetch-and-stage Lambda (lambda/app.py), the loader  *)
(* Lambda (lambda/subirDB.py) and the query service (main.py).             *)
(*                                                                         *)
(* The three programs share only the S3 bucket and the MySQL table, so     *)
(* each is given its own specification over the common variables:          *)
(*   Spec       the loader handler as deployed (entry at subirDB.handler)  *)
(*   SpecBody   the loader handler from the connection section on, entered *)
(*              with a configuration cfg                                   *)
(*   SpecFetch  the fetch-and-stage handler                                *)
(*   SpecQuery  the query endpoint                                         *)
(***************************************************************************)
EXTENDS Integers, Naturals, Sequences, FiniteSets, TLC

VARIABLES
    table,        \* rows of the dolar table, in insertion order
    tableExists,  \* whether the dolar table has been created
    table0,       \* the table when the current loader invocation sequence began
    pc,           \* position of the loader handler
    env,          \* os.environ as seen by the loader invocation
    event,        \* the S3 event given to the loader invocation
    exc,          \* exception the loader handler raised ("none" if none)
    errKeys,      \* keys named by the exception message
    connOpen,     \* the pymysql connection is open
    connOpened,   \* pymysql.connect has returned a connection in this invocation
    idx,          \* 1-based index of the next record of the event
    total,        \* total (line 75)
    details,      \* details (line 76)
    fetched,      \* keys given to s3.get_object, in call order
    calls,        \* cur.executemany calls: the record index and the rows
    result,       \* the dict the handler returned
    deliveries,   \* how many times the current event has been delivered
    bucket,       \* objects of the raw bucket
    fetchLog,     \* what the last fetch-and-stage invocation did
    resp          \* the last HTTP response of query_interval

loaderVars == <<table0, pc, env, event, exc, errKeys, connOpen, connOpened, idx,
                total, details, fetched, calls, result, deliveries>>
vars == <<table, tableExists, loaderVars, bucket, fetchLog, resp>>

(***************************************************************************)
(* Bounds                                                                  *)
(***************************************************************************)
TicksPerSec == 2     \* sub-second instants per second
MaxSec == 2          \* wall-clock seconds 0..MaxSec
MaxRows == 2         \* rows in a pre-existing table
MaxItems == 2        \* items of a top-level JSON list
MaxRecords == 2      \* records of one S3 event
MaxDeliveries == 2   \* deliveries of one event

Secs == 0..MaxSec
Ticks == 0..(MaxSec * TicksPerSec + 1)
Valores == {35, 40}  \* valor in tenths: 3.5 and 4.0
Rows == [fechahora : Secs, valor : Valores]

RECURSIVE SeqsUpTo(_, _)
SeqsUpTo(S, n) ==
    IF n = 0 THEN {<<>>}
    ELSE LET shorter == SeqsUpTo(S, n - 1)
         IN shorter \cup {Append(s, x) : s \in {t \in shorter : Len(t) = n - 1}, x \in S}

Tables == SeqsUpTo(Rows, MaxRows)

Count(r, s) == Cardinality({i \in 1..Len(s) : s[i] = r})

SameBag(s1, s2) ==
    /\ Len(s1) = Len(s2)
    /\ \A i \in 1..Len(s1) : Count(s1[i], s1) = Count(s1[i], s2)

NonDecreasing(s) ==
    \A i \in 1..Len(s) : \A j \in 1..Len(s) : i <= j => s[i].fechahora <= s[j].fechahora

(***************************************************************************)
(* Idle values of the variables a specification does not use               *)
(***************************************************************************)
NoEnv == [MYSQL_HOST |-> "unset", MYSQL_USER |-> "unset", MYSQL_PASS |-> "unset",
          MYSQL_DB |-> "unset", MYSQL_PORT |-> "unset"]
NoResult == [returned |-> FALSE, files_processed |-> 0, total_rows_inserted |-> 0]
NoKey == [prefix |-> "", ts |-> 0, suffix |-> ""]
NoFetch == [invoked |-> FALSE, neterr |-> FALSE, status |-> 0, body |-> "", now |-> 0,
            exc |-> "none", key |-> NoKey, written |-> {}]
NoResp == [status |-> 0, start |-> 0, end |-> 0, count |-> 0, data |-> <<>>,
           connected |-> FALSE, executed |-> FALSE]

LoaderIdle ==
    /\ pc = "idle" /\ env = NoEnv /\ event = <<>> /\ exc = "none" /\ errKeys = {}
    /\ connOpen = FALSE /\ connOpened = FALSE /\ idx = 1 /\ total = 0
    /\ details = <<>> /\ fetched = <<>> /\ calls = <<>> /\ result = NoResult
    /\ deliveries = 0 /\ table0 = table

(***************************************************************************)
(* main.py: query service                                                  *)
(***************************************************************************)
\* "%Y-%m-%d %H:%M:%S" drops the sub-second part of the instant
strftime(t) == t \div TicksPerSec

BadRangeStrict(start, end) == end < start
\* payload.end <= payload.start
BadRange(start, end) == end <= start

\* WHERE fechahora >= %s AND fechahora <= %s
InRange(r, start_str, end_str) == r.fechahora >= start_str /\ r.fechahora <= end_str

\* ORDER BY fechahora ASC: any arrangement of the selected rows that is
\* non-decreasing in fechahora (ties in no specified order)
Select(tbl, start_str, end_str) ==
    LET sel == SelectSeq(tbl, LAMBDA r : InRange(r, start_str, end_str))
        n == Len(sel)
        perms == {f \in [1..n -> 1..n] : \A i, j \in 1..n : i # j => f[i] # f[j]}
    IN {d \in {[i \in 1..n |-> sel[f[i]]] : f \in perms} : NonDecreasing(d)}

query_interval(start, end) ==
    /\ IF BadRange(start, end)
       THEN resp' = [status |-> 400, start |-> start, end |-> end, count |-> 0,
                     data |-> <<>>, connected |-> FALSE, executed |-> FALSE]
       ELSE LET start_str == strftime(start)
                end_str == strftime(end)
            IN \/ resp' = [status |-> 500, start |-> start, end |-> end, count |-> 0,
                           data |-> <<>>, connected |-> FALSE, executed |-> FALSE]
               \/ /\ ~tableExists
                  /\ resp' = [status |-> 500, start |-> start, end |-> end, count |-> 0,
                              data |-> <<>>, connected |-> TRUE, executed |-> TRUE]
               \/ /\ tableExists
                  /\ \E data \in Select(table, start_str, end_str) :
                        resp' = [status |-> 200, start |-> start, end |-> end,
                                 count |-> Len(data), data |-> data,
                                 connected |-> TRUE, executed |-> TRUE]
    /\ UNCHANGED <<table, tableExists, loaderVars, bucket, fetchLog>>

InitQuery ==
    /\ tableExists \in BOOLEAN
    /\ table \in Tables
    /\ ~tableExists => table = <<>>
    /\ LoaderIdle
    /\ bucket = {}
    /\ fetchLog = NoFetch
    /\ resp = NoResp

NextQuery == \E start \in Ticks, end \in Ticks : query_interval(start, end)

SpecQuery == InitQuery /\ [][NextQuery]_vars

(***************************************************************************)
(* lambda/app.py: fetch-and-stage handler                                  *)
(***************************************************************************)
Statuses == {200, 304, 404, 500}
Payloads == {"b1", "b2"}

RaiseForStatusServerOnly(status) == status >= 500 /\ status < 600
\* resp.raise_for_status(): HTTPError for 4xx and 5xx
RaiseForStatus(status) == status >= 400 /\ status < 600

\* ts = int(time.time()); key = f"dolar-{ts}.json"
KeyOf(now) == [prefix |-> "dolar-", ts |-> now \div TicksPerSec, suffix |-> ".json"]

\* s3.put_object(Bucket, Key, Body, ContentType): replaces the object at Key
PutObject(b, o) == {x \in b : x.key # o.key} \cup {o}

app_handler(now) ==
    /\ \/ /\ fetchLog' = [invoked |-> TRUE, neterr |-> TRUE, status |-> 0, body |-> "",
                          now |-> now, exc |-> "RequestException", key |-> NoKey,
                          written |-> {}]
          /\ UNCHANGED bucket
       \/ \E status \in Statuses, raw_bytes \in Payloads :
            IF RaiseForStatus(status)
            THEN /\ fetchLog' = [invoked |-> TRUE, neterr |-> FALSE, status |-> status,
                                 body |-> raw_bytes, now |-> now, exc |-> "HTTPError",
                                 key |-> NoKey, written |-> {}]
                 /\ UNCHANGED bucket
            ELSE LET key == KeyOf(now)
                     obj == [key |-> key, body |-> raw_bytes,
                             content_type |-> "application/json"]
                 IN \/ /\ fetchLog' = [invoked |-> TRUE, neterr |-> FALSE,
                                       status |-> status, body |-> raw_bytes,
                                       now |-> now, exc |-> "ClientError",
                                       key |-> key, written |-> {}]
                       /\ UNCHANGED bucket
                    \/ /\ bucket' = PutObject(bucket, obj)
                       /\ fetchLog' = [invoked |-> TRUE, neterr |-> FALSE,
                                       status |-> status, body |-> raw_bytes,
                                       now |-> now, exc |-> "none",
                                       key |-> key, written |-> {obj}]
    /\ UNCHANGED <<table, tableExists, loaderVars, resp>>

InitFetch ==
    /\ tableExists = FALSE
    /\ table = <<>>
    /\ LoaderIdle
    /\ bucket = {}
    /\ fetchLog = NoFetch
    /\ resp = NoResp

NextFetch == \E now \in Ticks : app_handler(now)

SpecFetch == InitFetch /\ [][NextFetch]_vars

(***************************************************************************)
(* lambda/subirDB.py: loader handler                                       *)
(***************************************************************************)
\* ---- environment ----
Required == {"MYSQL_HOST", "MYSQL_USER", "MYSQL_PASS", "MYSQL_DB"}
CfgKeys == Required \cup {"MYSQL_PORT"}

\* How a variable is set: "unset", "value" (a usable value), "placeholder"
\* (an unreplaced ${...}); MYSQL_PORT: "unset", "int" (decimal digits),
\* "notint" (anything int() rejects, an unreplaced ${...} included)
Envs == [MYSQL_HOST : {"unset", "value", "placeholder"},
         MYSQL_USER : {"unset", "value", "placeholder"},
         MYSQL_PASS : {"unset", "value", "placeholder"},
         MYSQL_DB   : {"unset", "value", "placeholder"},
         MYSQL_PORT : {"unset", "int", "notint"}]

GoodEnv == [MYSQL_HOST |-> "value", MYSQL_USER |-> "value", MYSQL_PASS |-> "value",
            MYSQL_DB |-> "value", MYSQL_PORT |-> "int"]

\* cfg as built by lines 21-22: the type and content of each entry.
\* os.environ.get(k, "").strip() is a str, empty when k is unset;
\* int(os.environ.get("MYSQL_PORT", "3306").strip() or "3306") is an int.
Cfg(e) ==
    [k \in CfgKeys |->
        IF k = "MYSQL_PORT" THEN [type |-> "int", v |-> "number"]
        ELSE [type |-> "str",
              v |-> IF e[k] = "unset" THEN "" ELSE e[k]]]

\* line 22: int() raises ValueError on a non-integer MYSQL_PORT
PortParses(e) == e.MYSQL_PORT # "notint"

\* line 24: [k for k, v in cfg.items() if k in required and not v]
Missing(e) == {k \in Required : Cfg(e)[k].v = ""}

\* line 25: v.startswith("${") and v.endswith("}") for every item of cfg;
\* an int has no startswith, so the comprehension raises AttributeError
StartswithRaises(e) == \E k \in CfgKeys : Cfg(e)[k].type # "str"
Placeholders(e) == {k \in CfgKeys : Cfg(e)[k].v = "placeholder"}

read_env(e) ==
    IF ~PortParses(e) THEN [exc |-> "ValueError", keys |-> {}]
    ELSE IF StartswithRaises(e) THEN [exc |-> "AttributeError", keys |-> {}]
    ELSE IF Missing(e) # {} THEN [exc |-> "RuntimeError", keys |-> Missing(e)]
    ELSE IF Placeholders(e) # {} THEN [exc |-> "RuntimeError", keys |-> Placeholders(e)]
    ELSE [exc |-> "none", keys |-> {}]

\* ---- JSON documents ----
\* A JSON scalar as the two conversions see it:
\*   "intstr"   a string of decimal digits n        "1000"
\*   "int"      the JSON integer n                   1000
\*   "float"    the JSON number n + 0.5              1000.5
\*   "decstr"   the string "n.5"                     "3.5"
\*   "commastr" the string "n,5"                     "3,5"
\*   "word"     a non-numeric string                 "abc"
\*   "list"     a JSON list
IntStr(n) == [t |-> "intstr", n |-> n]
IntNum(n) == [t |-> "int", n |-> n]
FloatNum(n) == [t |-> "float", n |-> n]
DecStr(n) == [t |-> "decstr", n |-> n]
CommaStr(n) == [t |-> "commastr", n |-> n]
Word == [t |-> "word", n |-> 0]
ListRepr == [t |-> "list", n |-> 0]

\* An item of the top-level list: its JSON type k, its length len and its
\* first two elements a, b (the characters, for a string)
Pair(a, b) == [k |-> "list", len |-> 2, a |-> a, b |-> b]
ItemA == Pair(IntStr(1000), DecStr(3))         \* ["1000", "3.5"]
ItemB == Pair(IntNum(2500), IntStr(4))         \* [2500, "4"]
ItemBadTs == Pair(Word, IntStr(4))             \* ["abc", "4"]
ItemBadVal == Pair(IntStr(1000), CommaStr(3))  \* ["1000", "3,5"]
ItemFloatTs == Pair(FloatNum(1000), IntStr(4)) \* [1000.5, "4"]
ItemThree == [k |-> "list", len |-> 3, a |-> IntStr(1000), b |-> IntStr(4)]
ItemStr2 == [k |-> "string", len |-> 2, a |-> IntStr(1), b |-> IntStr(4)]  \* "14"
\* a list of pairs P as an item of an enclosing list
Nested(P) == [k |-> "list", len |-> Len(P), a |-> ListRepr, b |-> ListRepr]

Items == {ItemA, ItemB, ItemBadTs, ItemBadVal, ItemFloatTs, ItemThree, ItemStr2}
PairItems == {ItemA, ItemBadTs}
PairLists == SeqsUpTo(PairItems, MaxItems) \ {<<>>}

\* What s3.get_object and json.loads give for an object:
\*   "nosuchkey" get_object raises        "badjson"  json.loads raises
\*   "scalar"    a JSON scalar            "object"   {"data": items}
\*   "list"      the list items           "wraplist" [items]
Documents ==
    [t : {"list"}, items : SeqsUpTo(Items, MaxItems)]
    \cup [t : {"wraplist", "object"}, items : PairLists]
    \cup [t : {"nosuchkey", "badjson", "scalar"}, items : {<<>>}]

DolarKey == [prefix |-> "dolar-", suffix |-> ".json"]
OtherKey == [prefix |-> "not-", suffix |-> ".txt"]
Keys == {DolarKey, OtherKey}
S3Records == [key : Keys, obj : Documents]
Events == SeqsUpTo(S3Records, MaxRecords) \ {<<>>}
Notifications == {ev \in Events : Len(ev) = 1}

\* ---- row parsing, lines 102-116 ----
\* ts_ms, val = item
Unpacks(item) == item.k \in {"list", "string"} /\ item.len = 2
\* int(ts_ms): a digit string or a number (a float is truncated)
IntOk(r) == r.t \in {"intstr", "int", "float"}
IntOf(r) == r.n
\* float(val), in tenths
FloatOk(r) == r.t \in {"intstr", "int", "float", "decstr"}
FloatOf(r) == IF r.t \in {"float", "decstr"} THEN 10 * r.n + 5 ELSE 10 * r.n
\* datetime.fromtimestamp(ms / 1000).strftime("%Y-%m-%d %H:%M:%S")
SecondOf(ms) == ms \div 1000

Accepted(item) == Unpacks(item) /\ IntOk(item.a) /\ FloatOk(item.b)
RowOf(item) == [fechahora |-> SecondOf(IntOf(item.a)), valor |-> FloatOf(item.b)]

RECURSIVE ParseRows(_)
ParseRows(data) ==
    IF data = <<>> THEN <<>>
    ELSE IF Accepted(Head(data))
         THEN <<RowOf(Head(data))>> \o ParseRows(Tail(data))
         ELSE ParseRows(Tail(data))

\* data after json.loads, for a top-level list
DataOf(obj) == IF obj.t = "wraplist" THEN <<Nested(obj.items)>> ELSE obj.items

\* isinstance(data, list)
IsList(obj) == obj.t \in {"list", "wraplist"}

\* ---- handler ----
Terminal == {"returned", "raised"}

\* lines 45-57: entry, for a first delivery of ev or a redelivery of the event
handler(ev) ==
    /\ \/ /\ pc = "idle"
          /\ deliveries' = 1
       \/ /\ pc \in Terminal
          /\ ev = event
          /\ deliveries < MaxDeliveries
          /\ deliveries' = deliveries + 1
    /\ event' = ev
    /\ LET r == read_env(env)
       IN /\ exc' = r.exc
          /\ errKeys' = r.keys
          /\ pc' = IF r.exc = "none" THEN "connect" ELSE "raised"
    /\ connOpen' = FALSE
    /\ connOpened' = FALSE
    /\ idx' = 1
    /\ total' = 0
    /\ details' = <<>>
    /\ fetched' = <<>>
    /\ calls' = <<>>
    /\ result' = NoResult
    /\ UNCHANGED <<table, tableExists, table0, env, bucket, fetchLog, resp>>

\* lines 135-137: log and re-raise; nothing is released
Raise(e) ==
    /\ pc' = "raised"
    /\ exc' = e
    /\ UNCHANGED <<connOpen, connOpened, result, errKeys>>

\* lines 58-62
connect ==
    /\ pc = "connect"
    /\ \/ /\ connOpen' = TRUE
          /\ connOpened' = TRUE
          /\ pc' = "create"
          /\ UNCHANGED <<exc, result, errKeys>>
       \/ Raise("MySQLError")
    /\ UNCHANGED <<table, tableExists, table0, env, event, idx, total, details,
                   fetched, calls, deliveries, bucket, fetchLog, resp>>

\* lines 67-78: CREATE TABLE IF NOT EXISTS, then the accumulators
create_table ==
    /\ pc = "create"
    /\ \/ /\ tableExists' = TRUE
          /\ pc' = "loop"
          /\ UNCHANGED <<exc, connOpen, connOpened, result, errKeys>>
       \/ /\ Raise("MySQLError")
          /\ UNCHANGED tableExists
    /\ total' = 0
    /\ details' = <<>>
    /\ UNCHANGED <<table, table0, env, event, idx, fetched, calls, deliveries,
                   bucket, fetchLog, resp>>

\* lines 83-127: one iteration of the loop over the records
process_record ==
    /\ pc = "loop"
    /\ idx <= Len(event)
    /\ LET rec == event[idx]
           obj == rec.obj
           rows == ParseRows(DataOf(obj))
       IN /\ fetched' = Append(fetched, idx)
          /\ IF obj.t = "nosuchkey"
             THEN /\ Raise("ClientError")
                  /\ UNCHANGED <<table, idx, total, details, calls>>
             ELSE IF obj.t = "badjson"
             THEN /\ Raise("JSONDecodeError")
                  /\ UNCHANGED <<table, idx, total, details, calls>>
             ELSE IF ~IsList(obj)
             THEN /\ Raise("ValueError")
                  /\ UNCHANGED <<table, idx, total, details, calls>>
             ELSE IF rows # <<>>
             THEN \/ /\ table' = table \o rows
                     /\ calls' = Append(calls, [idx |-> idx, rows |-> rows])
                     /\ total' = total + Len(rows)
                     /\ details' = Append(details, [key |-> rec.key,
                                                    rows_inserted |-> Len(rows)])
                     /\ idx' = idx + 1
                     /\ UNCHANGED <<pc, exc, connOpen, connOpened, result, errKeys>>
                  \/ /\ Raise("MySQLError")
                     /\ calls' = Append(calls, [idx |-> idx, rows |-> rows])
                     /\ UNCHANGED <<table, idx, total, details>>
             ELSE /\ idx' = idx + 1
                  /\ UNCHANGED <<table, total, details, calls, pc, exc, connOpen,
                                 connOpened, result, errKeys>>
    /\ UNCHANGED <<tableExists, table0, env, event, deliveries, bucket, fetchLog, resp>>

\* lines 129-133: close and return the report
close_and_return ==
    /\ pc = "loop"
    /\ idx > Len(event)
    /\ connOpen' = FALSE
    /\ result' = [returned |-> TRUE, files_processed |-> Len(details),
                  total_rows_inserted |-> total]
    /\ pc' = "returned"
    /\ UNCHANGED <<table, tableExists, table0, env, event, exc, errKeys, connOpened,
                   idx, total, details, fetched, calls, deliveries, bucket, fetchLog,
                   resp>>

\* The table a loader invocation may find
LoaderTables == {<<>>, <<[fechahora |-> 1, valor |-> 35]>>}

\* The environment is fixed by the deployment; the table is whatever earlier
\* runs left
Init ==
    /\ table \in LoaderTables
    /\ tableExists = (table # <<>>)
    /\ env \in Envs
    /\ pc = "idle" /\ event = <<>> /\ exc = "none" /\ errKeys = {}
    /\ connOpen = FALSE /\ connOpened = FALSE /\ idx = 1 /\ total = 0
    /\ details = <<>> /\ fetched = <<>> /\ calls = <<>> /\ result = NoResult
    /\ deliveries = 0 /\ table0 = table
    /\ bucket = {}
    /\ fetchLog = NoFetch
    /\ resp = NoResp

\* read_env never returns, so the handler never leaves its entry
Next == \E ev \in Notifications : handler(ev)

Spec == Init /\ [][Next]_vars

\* The handler from line 57 on, with the configuration read
InitBody ==
    /\ table \in LoaderTables
    /\ tableExists = (table # <<>>)
    /\ table0 = table
    /\ pc = "connect"
    /\ env = GoodEnv
    /\ event \in Events
    /\ exc = "none" /\ errKeys = {}
    /\ connOpen = FALSE /\ connOpened = FALSE
    /\ idx = 1 /\ total = 0 /\ details = <<>> /\ fetched = <<>> /\ calls = <<>>
    /\ result = NoResult
    /\ deliveries = 1
    /\ bucket = {}
    /\ fetchLog = NoFetch
    /\ resp = NoResp

NextBody == connect \/ create_table \/ process_record \/ close_and_return

SpecBody == InitBody /\ [][NextBody]_vars

(***************************************************************************)
(* Properties                                                              *)
(***************************************************************************)
\* A record as the specification's Row Normalizer defines it: a two-element
\* list whose timestamp is an integer and whose value is numeric
WellFormed(item) ==
    /\ item.k = "list" /\ item.len = 2
    /\ item.a.t \in {"intstr", "int"}
    /\ item.b.t \in {"intstr", "int", "float", "decstr"}

RECURSIVE WellFormedRows(_)
WellFormedRows(items) ==
    IF items = <<>> THEN <<>>
    ELSE IF WellFormed(Head(items))
         THEN <<RowOf(Head(items))>> \o WellFormedRows(Tail(items))
         ELSE WellFormedRows(Tail(items))

HasMalformed(items) == \E i \in 1..Len(items) : ~WellFormed(items[i])

RECURSIVE WellFormedTotal(_)
WellFormedTotal(ev) ==
    IF ev = <<>> THEN 0
    ELSE Len(WellFormedRows(Head(ev).obj.items)) + WellFormedTotal(Tail(ev))

IsDolarKey(key) == key.prefix = "dolar-" /\ key.suffix = ".json"

Attempted(j) == \E i \in 1..Len(fetched) : fetched[i] = j

IsPrefix(s, t) == Len(s) <= Len(t) /\ \A i \in 1..Len(s) : s[i] = t[i]

OffendingKeys(e) ==
    {k \in Required : e[k] \in {"unset", "placeholder"}}
    \cup (IF e.MYSQL_PORT = "notint" THEN {"MYSQL_PORT"} ELSE {})

OrigC6 ==
    (pc \in Terminal /\ OffendingKeys(env) # {})
    => /\ pc = "raised"
       /\ exc = "RuntimeError"
       /\ OffendingKeys(env) \subseteq errKeys
       /\ ~connOpened
       /\ fetched = <<>>

\* C7: a request with end <= start is answered 400 and neither opens a
\* connection nor executes the query.
ThmC7 ==
    (resp.status # 0 /\ resp.end <= resp.start)
    => resp.status = 400 /\ ~resp.connected /\ ~resp.executed

WitC7 == resp.status = 400 /\ resp.end = resp.start /\ resp.start > 0 /\ table # <<>>

\* C8: for start < end a 200 answer holds exactly the stored points with
\* start <= fechahora <= end, duplicates kept, in non-decreasing fechahora
\* order, and count is the length of data.
InInterval(r, start, end) ==
    r.fechahora * TicksPerSec >= start /\ r.fechahora * TicksPerSec <= end

OrigC8 ==
    resp.status = 200
    => /\ SameBag(resp.data,
                  SelectSeq(table, LAMBDA r : InInterval(r, resp.start, resp.end)))
       /\ NonDecreasing(resp.data)
       /\ resp.count = Len(resp.data)

\* C9: an invocation of the fetch-and-stage handler writes at most one object
\* and none when the GET failed (network failure or error status); when it
\* returns it has written exactly one object, under the key
\* dolar-<whole-second epoch>.json, with content type application/json and
\* the response body unchanged.
ThmC9 ==
    fetchLog.invoked
    => /\ Cardinality(fetchLog.written) <= 1
       /\ (fetchLog.neterr \/ fetchLog.status >= 400) => fetchLog.written = {}
       /\ fetchLog.exc = "none" => Cardinality(fetchLog.written) = 1
       /\ \A o \in fetchLog.written :
             /\ o \in bucket
             /\ o.key.prefix = "dolar-" /\ o.key.suffix = ".json"
             /\ o.key.ts * TicksPerSec <= fetchLog.now
             /\ fetchLog.now < (o.key.ts + 1) * TicksPerSec
             /\ o.content_type = "application/json"
             /\ o.body = fetchLog.body

WitC9 ==
    /\ fetchLog.invoked /\ fetchLog.exc = "none"
    /\ fetchLog.now % TicksPerSec # 0
    /\ \E o \in bucket : o \in fetchLog.written /\ o.key.ts > 0

\* C10: the table only grows, and when an event has been delivered n times
\* every well-formed row of its list objects is in the table n more times
\* than before the deliveries.
OrigC10 ==
    /\ IsPrefix(table0, table)
    /\ pc \in Terminal
          => \A j \in 1..Len(event) :
                event[j].obj.t = "list"
                   => LET rows == WellFormedRows(event[j].obj.items)
                      IN \A i \in 1..Len(rows) :
                            Count(rows[i], table) >=
                               Count(rows[i], table0) + deliveries * Count(rows[i], rows)

====
